---- MODULE Spec2Model ----
(***************************************************************************)
(* Model of src/wine_tasting2.py, a Streamlit script over one Google       *)
(* Sheet and one generative-text service.                                  *)
(*                                                                         *)
(* One step of the model is one top-to-bottom execution of the script (a   *)
(* "run"): the header check of lines 37-41, the form handler of lines      *)
(* 101-115 and, unless the run was ended by st.rerun(), the viewing tab of *)
(* lines 121-285.  What triggered the run (a pressed button, a changed     *)
(* widget, st.rerun()) selects the action.                                 *)
(*                                                                         *)
(* Text is modelled as a sequence of symbols: a symbol is one character,   *)
(* or one literal of the source taken whole ("All Users", the header       *)
(* names, the fixed text of an f-string).                                  *)
(***************************************************************************)
EXTENDS Integers, Sequences, FiniteSets, TLC

VARIABLES
    sheet,           \* the worksheet: a sequence of rows, row 1 first
    funny_prompt,    \* st.session_state.funny_prompt
    funny_response,  \* st.session_state.funny_response
    sel,             \* the widget state: selected_user, selected_wine, category_filter
    rerun,           \* st.rerun() was called: the script is about to run again
    view,            \* what the last run did and displayed
    respFor,         \* history: the prompt funny_response was generated from
    stale,           \* history: funny_response was generated before the last change of selection
    appended         \* history: how many rows the form has appended so far

vars == <<sheet, funny_prompt, funny_response, sel, rerun, view, respFor, stale, appended>>

-----------------------------------------------------------------------------
(* Bounds of the model.                                                    *)

\* The worksheet holds at most this many rows, header included, in the
\* specification of the form (SpecForm), of the aggregation (SpecAgg) and of
\* the session (Spec).
MaxRowsForm == 4
MaxRowsAgg == 3
MaxRows == 3

-----------------------------------------------------------------------------
(* Optional values.                                                        *)

None == [some |-> FALSE]
Some(v) == [some |-> TRUE, v |-> v]

Min(S) == CHOOSE m \in S : \A n \in S : m <= n

RECURSIVE SumSeq(_)
SumSeq(s) == IF s = <<>> THEN 0 ELSE Head(s) + SumSeq(Tail(s))

-----------------------------------------------------------------------------
(* Python's str methods.                                                   *)

Whitespace == {" ", "\n"}

RECURSIVE lstrip(_)
lstrip(s) == IF s # <<>> /\ Head(s) \in Whitespace THEN lstrip(Tail(s)) ELSE s

RECURSIVE rstrip(_)
rstrip(s) ==
    IF s # <<>> /\ s[Len(s)] \in Whitespace
    THEN rstrip(SubSeq(s, 1, Len(s) - 1))
    ELSE s

\* str.strip(): leading and trailing whitespace removed.
strip(s) == rstrip(lstrip(s))

\* str.splitlines(): the lines, without their line ends; no empty last line.
RECURSIVE splitlines(_)
splitlines(s) ==
    IF s = <<>> THEN <<>>
    ELSE LET brk == {i \in 1..Len(s) : s[i] = "\n"}
         IN IF brk = {} THEN <<s>>
            ELSE <<SubSeq(s, 1, Min(brk) - 1)>>
                     \o splitlines(SubSeq(s, Min(brk) + 1, Len(s)))

\* sub occurs in s.
Contains(s, sub) ==
    \E i \in 1..(Len(s) - Len(sub) + 1) : SubSeq(s, i, i + Len(sub) - 1) = sub

-----------------------------------------------------------------------------
(* The worksheet.  A Rating cell holds a number or text ("" when empty).   *)

Num(n) == [num |-> n]
Text(s) == [text |-> s]

expected_headers ==
    [Name |-> <<"Name">>, Wine |-> "Wine", Rating |-> Text(<<"Rating">>),
     Category |-> "Category", Taste |-> <<"Taste">>]

wine_options == <<"Pinot Gris", "Gerwurtzraminer", "Riesling", "Dolcetto", "Cremant">>

\* st.slider("Rate the wine (1-10)", 1, 10, 5)
SliderMin == 1
SliderMax == 10
SliderDefault == 5

\* sheet.row_values(1) != expected_headers
HeaderMismatch(sh) == sh = <<>> \/ sh[1] # expected_headers

\* Mutant of EnsureHeaders: the header overwrites row 1 instead of being inserted.
EnsureHeadersOverwrite(sh) ==
    IF HeaderMismatch(sh)
    THEN (IF sh = <<>> THEN <<expected_headers>> ELSE [sh EXCEPT ![1] = expected_headers])
    ELSE sh

\* Lines 38-41: insert the header as row 1 when row 1 is not the header.
EnsureHeaders(sh) ==
    IF HeaderMismatch(sh) THEN <<expected_headers>> \o sh ELSE sh

\* The row of line 106.
RatingRow(name, wine, rating) ==
    [Name |-> strip(name), Wine |-> wine, Rating |-> Num(rating),
     Category |-> "Rating", Taste |-> <<>>]

\* The row of line 112.
TasteRow(name, wine, taste) ==
    [Name |-> strip(name), Wine |-> wine, Rating |-> Text(<<>>),
     Category |-> "Taste", Taste |-> strip(taste)]

\* Mutant of TasteRows: the check of line 111 is missing.
RECURSIVE TasteRowsKeepBlank(_, _, _)
TasteRowsKeepBlank(name, wine, lines) ==
    IF lines = <<>> THEN <<>>
    ELSE <<TasteRow(name, wine, Head(lines))>>
             \o TasteRowsKeepBlank(name, wine, Tail(lines))

\* Lines 110-112: one row per line of the notes that is not blank.
RECURSIVE TasteRows(_, _, _)
TasteRows(name, wine, lines) ==
    IF lines = <<>> THEN <<>>
    ELSE (IF strip(Head(lines)) # <<>>
          THEN <<TasteRow(name, wine, Head(lines))>>
          ELSE <<>>) \o TasteRows(name, wine, Tail(lines))

\* Lines 106-112: the rows a valid submission appends.
SubmitRows(name, wine, rating, tasting_notes) ==
    <<RatingRow(name, wine, rating)>>
        \o (IF strip(tasting_notes) # <<>>
            THEN TasteRows(name, wine, splitlines(tasting_notes))
            ELSE <<>>)

-----------------------------------------------------------------------------
(* The generative-text service.  What it does with a prompt is not the     *)
(* program's to decide: an outcome is a raised error with its message, or  *)
(* a response with its text.                                               *)

Raise(msg) == [raise |-> msg]
Reply(text) == [text |-> text]

ErrorPrefix == <<"Could not generate a summary due to an error: ">>
NoResponse == <<"No response generated.">>

\* Mutant of generate_summary: the error's message is left out of the text.
generate_summary_NoDetail(prompt, outcome) ==
    IF "raise" \in DOMAIN outcome
    THEN ErrorPrefix
    ELSE IF outcome.text # <<>> THEN strip(outcome.text) ELSE NoResponse

\* Lines 47-56.
generate_summary(prompt, outcome) ==
    IF "raise" \in DOMAIN outcome
    THEN ErrorPrefix \o outcome.raise
    ELSE IF outcome.text # <<>> THEN strip(outcome.text) ELSE NoResponse

-----------------------------------------------------------------------------
(* The aggregation of the viewing tab.                                     *)

NaN == [nan |-> TRUE]
AllUsers == <<"All Users">>
AllWines == "All Wines"

\* sheet.get_all_records(): the rows under the header row, keyed by it.
get_all_records(sh) == Tail(sh)

\* pd.to_numeric(errors="coerce") of one cell: text becomes NaN.
to_numeric(cell) == IF "num" \in DOMAIN cell THEN cell ELSE NaN

\* Lines 129-135: the frame, its Rating column converted.
DataFrame(ratings_data) ==
    [i \in 1..Len(ratings_data) |->
        [ratings_data[i] EXCEPT !.Rating = to_numeric(@)]]

Column(frame, c) == [i \in 1..Len(frame) |-> frame[i][c]]

\* Series.dropna() of a Rating column.
dropna(col) == SelectSeq(col, LAMBDA x : x # NaN)

\* Series.tolist() of a Rating column without NaN: the numbers.
tolist(col) == [i \in 1..Len(col) |-> col[i].num]

\* The Rating column is float64 as soon as it holds a NaN, int64 otherwise.
IsFloat(frame) == \E i \in 1..Len(frame) : frame[i].Rating = NaN

\* Line 138-139 and 143: the options of the two select boxes.
user_options(df) == {AllUsers} \cup {df[i].Name : i \in 1..Len(df)}
wine_select_options(df) == {AllWines} \cup {df[i].Wine : i \in 1..Len(df)}

\* Lines 154-156.
rating_df(df, selected_wine) ==
    LET byCategory == SelectSeq(df, LAMBDA r : r.Category = "Rating")
    IN IF selected_wine # AllWines
       THEN SelectSeq(byCategory, LAMBDA r : r.Wine = selected_wine)
       ELSE byCategory

\* Mutant of taste_df: the filter of lines 273-274 is missing.
taste_df_AllWines(df, selected_wine) ==
    SelectSeq(df, LAMBDA r : r.Category = "Taste")

\* Lines 272-274.
taste_df(df, selected_wine) ==
    LET byCategory == SelectSeq(df, LAMBDA r : r.Category = "Taste")
    IN IF selected_wine # AllWines
       THEN SelectSeq(byCategory, LAMBDA r : r.Wine = selected_wine)
       ELSE byCategory

\* Series.value_counts() of values without NaN: each distinct value with
\* the number of times it occurs.
RECURSIVE value_counts(_)
value_counts(col) ==
    IF col = <<>> THEN [x \in {} |-> 0]
    ELSE LET rest == value_counts(Tail(col))
             h == Head(col)
         IN IF h \in DOMAIN rest
            THEN [rest EXCEPT ![h] = @ + 1]
            ELSE [x \in DOMAIN rest \cup {h} |-> IF x = h THEN 1 ELSE rest[x]]

\* Mutant of rating_counts: value_counts() without the reindex.
rating_counts_NoReindex(rdf) ==
    LET counts == value_counts(dropna(Column(rdf, "Rating")))
    IN [r \in {c.num : c \in DOMAIN counts} |-> counts[Num(r)]]

\* Lines 162-163: value_counts() drops NaN; reindex keeps 1..10, filled with 0.
rating_counts(rdf) ==
    LET counts == value_counts(dropna(Column(rdf, "Rating")))
    IN [r \in SliderMin..SliderMax |->
           IF Num(r) \in DOMAIN counts THEN counts[Num(r)] ELSE 0]

\* Line 279.
taste_counts(tdf) == value_counts(Column(tdf, "Taste"))

\* Series.mean() of a Rating column: NaN skipped, NaN when nothing is left.
mean(col) ==
    LET present == tolist(dropna(col))
    IN IF present = <<>> THEN NaN
       ELSE [sum |-> SumSeq(present), cnt |-> Len(present)]

\* f"{x:.1f}": "nan", or the tenths nearest to sum/cnt (the ties a mean of
\* fewer than 20 integers can hit are exact in binary and go to even).
Format1(m) ==
    IF m = NaN THEN NaN
    ELSE LET q == (10 * m.sum) \div m.cnt
             rem == (10 * m.sum) % m.cnt
         IN [tenths |-> IF 2 * rem > m.cnt \/ (2 * rem = m.cnt /\ q % 2 = 1)
                        THEN q + 1 ELSE q]

UserRows(rdf, selected_user) == SelectSeq(rdf, LAMBDA r : r.Name = selected_user)

\* Lines 199-206.
prompt_cmp(rdf, selected_user, selected_wine) ==
    [user |-> selected_user, wine |-> selected_wine,
     user_mean |-> Format1(mean(Column(UserRows(rdf, selected_user), "Rating"))),
     overall_mean |-> Format1(mean(Column(rdf, "Rating")))]

\* Lines 220-225: the user's mean of the per-wine summary.
funny_user_mean(rdf, selected_user) ==
    LET overall_mean == mean(Column(rdf, "Rating"))
        user_ratings == Column(UserRows(rdf, selected_user), "Rating")
    IN IF selected_user # AllUsers
       THEN (IF user_ratings # <<>> THEN mean(user_ratings) ELSE overall_mean)
       ELSE overall_mean

\* Lines 218-243.
prompt_funny(df, rdf, selected_user, selected_wine) ==
    [user |-> selected_user, wine |-> selected_wine,
     user_mean |-> Format1(funny_user_mean(rdf, selected_user)),
     overall_mean |-> Format1(mean(Column(rdf, "Rating"))),
     distribution_str |->
         [float |-> IsFloat(df),
          vals |-> tolist(dropna(Column(rdf, "Rating")))]]

-----------------------------------------------------------------------------
(* One run of the script.                                                  *)

BlankView ==
    [kind |-> "none", name |-> <<>>, warning |-> FALSE, store_changed |-> FALSE,
     reads |-> 0, ratings_data |-> <<>>, gens |-> <<>>,
     rating_counts |-> None, taste_counts |-> None,
     prompt_cmp |-> None, comparison_summary |-> None,
     prompt_funny |-> None, memo_hit |-> FALSE, shown |-> None,
     shown_for |-> None, shown_stale |-> FALSE, response_kept |-> TRUE,
     button |-> FALSE, regenerate |-> FALSE]

\* One call of generate_summary, as the run's record keeps it.
Call(for, prompt, outcome) ==
    [for |-> for, outcome |-> outcome, result |-> generate_summary(prompt, outcome)]

\* Mutant of ComparisonSummary: the checks of lines 196 and 198 are missing.
ComparisonSummaryUnconditional(rdf, selected_user, selected_wine, outcome) ==
    <<Call("cmp", prompt_cmp(rdf, selected_user, selected_wine), outcome)>>

\* Lines 196-212: the calls the comparison summary makes.
ComparisonSummary(rdf, selected_user, selected_wine, outcome) ==
    IF selected_user # AllUsers /\ UserRows(rdf, selected_user) # <<>>
    THEN <<Call("cmp", prompt_cmp(rdf, selected_user, selected_wine), outcome)>>
    ELSE <<>>

\* Mutant of UpdateMemo: the memo is compared by its wine alone.
UpdateMemoKeyedByWine(stored_prompt, stored_response, prompt, outcome) ==
    IF stored_prompt.some /\ stored_prompt.v.wine = prompt.wine
    THEN [funny_prompt |-> stored_prompt,
          funny_response |-> stored_response,
          called |-> FALSE]
    ELSE [funny_prompt |-> Some(prompt),
          funny_response |-> Some(generate_summary(prompt, outcome)),
          called |-> TRUE]

\* Mutant of UpdateMemo: the summary is generated in every run.
UpdateMemoAlways(stored_prompt, stored_response, prompt, outcome) ==
    [funny_prompt |-> Some(prompt),
     funny_response |-> Some(generate_summary(prompt, outcome)),
     called |-> TRUE]

\* Lines 246-254: the memo of the per-wine summary.
UpdateMemo(stored_prompt, stored_response, prompt, outcome) ==
    IF stored_prompt # Some(prompt)
    THEN [funny_prompt |-> Some(prompt),
          funny_response |-> Some(generate_summary(prompt, outcome)),
          called |-> TRUE]
    ELSE [funny_prompt |-> stored_prompt,
          funny_response |-> stored_response,
          called |-> FALSE]

\* Lines 151-263: the ratings section, reached with ratings to show.
RatingsSection(df, rdf, su, sw, pressed, staleIn, o_cmp, o_memo, o_regen, v1) ==
    LET cmp == ComparisonSummary(rdf, su, sw, o_cmp)
        wine_ratings == tolist(dropna(Column(rdf, "Rating")))
        doFunny == sw # AllWines /\ Len(wine_ratings) > 0
        pf == prompt_funny(df, rdf, su, sw)
        memo == IF doFunny
                THEN UpdateMemo(funny_prompt, funny_response, pf, o_memo)
                ELSE [funny_prompt |-> funny_prompt,
                      funny_response |-> funny_response, called |-> FALSE]
        shownFor == IF memo.called THEN memo.funny_prompt ELSE respFor
        regen == doFunny /\ pressed
        gens == cmp
                \o (IF memo.called THEN <<Call("memo", pf, o_memo)>> ELSE <<>>)
                \o (IF regen THEN <<Call("regen", memo.funny_prompt.v, o_regen)>> ELSE <<>>)
    IN [funny_prompt |-> memo.funny_prompt,
        funny_response |->
            IF regen
            THEN Some(generate_summary(memo.funny_prompt.v, o_regen))
            ELSE memo.funny_response,
        respFor |-> IF regen THEN memo.funny_prompt ELSE shownFor,
        stale |-> IF memo.called \/ regen THEN FALSE ELSE staleIn,
        rerun |-> regen,
        view |-> [v1 EXCEPT
            !.rating_counts = Some(rating_counts(rdf)),
            !.prompt_cmp = IF cmp # <<>> THEN Some(prompt_cmp(rdf, su, sw)) ELSE None,
            !.comparison_summary = IF cmp # <<>> THEN Some(cmp[1].result) ELSE None,
            !.prompt_funny = IF doFunny THEN Some(pf) ELSE None,
            !.memo_hit = doFunny /\ funny_prompt = Some(pf),
            !.gens = gens,
            !.shown = IF doFunny THEN memo.funny_response ELSE None,
            !.shown_for = IF doFunny THEN shownFor ELSE None,
            !.shown_stale = doFunny /\ ~memo.called /\ staleIn,
            !.response_kept = (memo.funny_response = funny_response /\ ~regen),
            !.button = doFunny,
            !.regenerate = regen]]

\* Lines 121-285: the viewing tab, on the worksheet sh.
Tab2(sh, su, sw, cat, pressed, changed, o_cmp, o_memo, o_regen, v0) ==
    LET ratings_data == get_all_records(sh)
        df == DataFrame(ratings_data)
        staleIn == stale \/ changed
        v1 == [v0 EXCEPT !.reads = @ + 1, !.ratings_data = ratings_data]
        keep(v) == [funny_prompt |-> funny_prompt, funny_response |-> funny_response,
                    respFor |-> respFor, stale |-> staleIn, rerun |-> FALSE,
                    view |-> v]
    IN IF df = <<>> THEN keep(v1)
       ELSE IF cat = "Rating"
       THEN (IF rating_df(df, sw) = <<>> THEN keep(v1)
             ELSE RatingsSection(df, rating_df(df, sw), su, sw, pressed, staleIn,
                                 o_cmp, o_memo, o_regen, v1))
       ELSE (IF taste_df(df, sw) = <<>> THEN keep(v1)
             ELSE keep([v1 EXCEPT
                          !.taste_counts = Some(taste_counts(taste_df(df, sw)))]))

\* Mutant of submit_button: the check of line 102 is missing.
submit_button_NoNameCheck(name, wine, rating, tasting_notes) ==
    [warning |-> FALSE,
     rows |-> SubmitRows(name, wine, rating, tasting_notes),
     rerun |-> TRUE]

\* Lines 101-115: the form handler, Submit pressed.
submit_button(name, wine, rating, tasting_notes) ==
    IF strip(name) = <<>>
    THEN [warning |-> TRUE, rows |-> <<>>, rerun |-> FALSE]
    ELSE [warning |-> FALSE,
          rows |-> SubmitRows(name, wine, rating, tasting_notes),
          rerun |-> TRUE]

Session(t) ==
    /\ funny_prompt' = t.funny_prompt
    /\ funny_response' = t.funny_response
    /\ respFor' = t.respFor
    /\ stale' = t.stale
    /\ rerun' = t.rerun
    /\ view' = t.view

\* The outcomes to draw for the calls tagged tag, given the calls a run makes:
\* a call that is not made draws nothing.
Draw(outcomes, made, tag) ==
    IF \E i \in 1..Len(made) : made[i].for = tag
    THEN outcomes
    ELSE {CHOOSE o \in outcomes : TRUE}

\* The viewing tab with the service's outcomes drawn from outcomes.
Tab2Any(outcomes, sh, su, sw, cat, pressed, changed, v0) ==
    LET d == CHOOSE o \in outcomes : TRUE
        made == IF outcomes = {d} THEN <<>>
                ELSE Tab2(sh, su, sw, cat, pressed, changed, d, d, d, v0).view.gens
    IN \E o_cmp \in Draw(outcomes, made, "cmp"),
          o_memo \in Draw(outcomes, made, "memo"),
          o_regen \in Draw(outcomes, made, "regen") :
          Session(Tab2(sh, su, sw, cat, pressed, changed, o_cmp, o_memo, o_regen, v0))

\* A run with Submit pressed.
Submit(I, name, wine, rating, tasting_notes) ==
    /\ view.kind # "none" /\ ~rerun
    /\ LET sh == EnsureHeaders(sheet)
           h == submit_button(name, wine, rating, tasting_notes)
           new == sh \o h.rows
           v0 == [BlankView EXCEPT !.kind = "submit", !.name = name,
                                   !.warning = h.warning,
                                   !.store_changed = (new # sheet)]
       IN /\ Len(new) <= I.max_rows
          /\ sheet' = new
          /\ appended' = appended + Len(h.rows)
          /\ sel' = sel
          /\ IF h.rerun
             THEN /\ rerun' = TRUE
                  /\ view' = v0
                  /\ UNCHANGED <<funny_prompt, funny_response, respFor, stale>>
             ELSE Tab2Any(I.outcomes, new, sel.user, sel.wine, sel.cat,
                          FALSE, FALSE, v0)

\* The form submitted in another browser session: only the worksheet is shared.
OtherSubmit(I, name, wine, rating, tasting_notes) ==
    /\ LET new == EnsureHeaders(sheet)
                    \o submit_button(name, wine, rating, tasting_notes).rows
       IN /\ Len(new) <= I.max_rows
          /\ sheet' = new
          /\ appended' = appended + (Len(new) - Len(EnsureHeaders(sheet)))
    /\ UNCHANGED <<funny_prompt, funny_response, sel, rerun, view, respFor, stale>>

\* A run with "Refresh Data" pressed (lines 124-125).
Refresh ==
    /\ view.kind # "none" /\ ~rerun
    /\ sheet' = EnsureHeaders(sheet)
    /\ rerun' = TRUE
    /\ view' = [BlankView EXCEPT !.kind = "refresh",
                                 !.store_changed = (EnsureHeaders(sheet) # sheet)]
    /\ UNCHANGED <<funny_prompt, funny_response, sel, respFor, stale, appended>>

\* A run with no button of tab 1 pressed: the first load, the run st.rerun()
\* asked for, one widget of the selection changed, or "Regenerate AI Summary"
\* pressed (on the button a run displayed, the selection as it was).
View(I, su, sw, cat, pressed) ==
    LET sh == EnsureHeaders(sheet)
        df == DataFrame(get_all_records(sh))
        choice == [user |-> su, wine |-> sw, cat |-> cat]
        v0 == [BlankView EXCEPT !.kind = "view", !.store_changed = (sh # sheet)]
    IN /\ (rerun \/ pressed \/ view.kind = "none" \/ df = <<>>) => choice = sel
       /\ Cardinality({w \in DOMAIN sel : choice[w] # sel[w]}) <= 1
       /\ pressed => view.button /\ ~rerun
       /\ df # <<>> => su \in user_options(df) /\ sw \in wine_select_options(df)
       /\ sheet' = sh
       /\ sel' = choice
       /\ Tab2Any(I.outcomes, sh, su, sw, cat, pressed, choice # sel, v0)
       /\ UNCHANGED appended

InitWith(sheets) ==
    /\ sheet \in sheets
    /\ funny_prompt = None
    /\ funny_response = None
    /\ sel = [user |-> AllUsers, wine |-> AllWines, cat |-> "Rating"]
    /\ rerun = FALSE
    /\ view = BlankView
    /\ respFor = None
    /\ stale = FALSE
    /\ appended = 0

\* Every run the inputs I allow.
Run(I) ==
    \/ \E name \in I.names, wine \in I.wines, rating \in I.ratings,
          tasting_notes \in I.notes :
          Submit(I, name, wine, rating, tasting_notes)
    \/ \E name \in I.names, wine \in I.wines, rating \in I.ratings,
          tasting_notes \in I.notes :
          OtherSubmit(I, name, wine, rating, tasting_notes)
    \/ Refresh
    \/ \E su \in I.users, sw \in I.selectable, cat \in I.categories,
          pressed \in BOOLEAN :
          View(I, su, sw, cat, pressed)

-----------------------------------------------------------------------------
(* The inputs of the model: what is typed, picked, found in the worksheet  *)
(* and answered by the service.                                            *)

Row(name, wine, rating, category, taste) ==
    [Name |-> name, Wine |-> wine, Rating |-> rating, Category |-> category,
     Taste |-> taste]

SeqsUpTo(S, n) == UNION {[1..k -> S] : k \in 0..n}

\* Spec, the session: two users, one wine, every outcome of the service.
SessionInputs ==
    [names |-> {<<>>, <<"a">>, <<"b">>},
     wines |-> {wine_options[1]},
     ratings |-> {SliderDefault},
     notes |-> {<<>>, <<"c">>},
     outcomes |-> {Raise(<<"4", "2", "9">>), Reply(<<>>), Reply(<<" ", "o", "k", "\n">>)},
     users |-> {AllUsers, <<"a">>, <<"b">>},
     selectable |-> {AllWines, wine_options[1]},
     categories |-> {"Rating", "Taste"},
     max_rows |-> MaxRows]

Init == InitWith({<<>>, <<expected_headers>>})
Next == Run(SessionInputs)
Spec == Init /\ [][Next]_vars

\* SpecForm, the form: names and notes with blanks, line ends and padding, a
\* worksheet found empty, without its header, or with the header further
\* down (a worksheet found with its header is what the first run leaves).
FormInputs ==
    [names |-> {<<>>, <<" ", "\n">>, <<" ", "b", "\n">>},
     wines |-> {wine_options[3]},
     ratings |-> {SliderMin, SliderMax},
     notes |-> {<<>>, <<" ", "\n">>, <<" ", "c", "\n", " ">>,
               <<"c", "\n", "\n", " ", "d", "\n">>},
     outcomes |-> {Reply(<<"o", "k">>)},
     users |-> {AllUsers},
     selectable |-> {AllWines, wine_options[3]},
     categories |-> {"Rating", "Taste"},
     max_rows |-> MaxRowsForm]

ForeignRow == Row(<<"z">>, wine_options[3], Text(<<>>), "Other", <<>>)

InitForm ==
    InitWith({<<>>, <<ForeignRow>>, <<ForeignRow, expected_headers>>})
NextForm == Run(FormInputs)
SpecForm == InitForm /\ [][NextForm]_vars

\* SpecAgg, the aggregation: the worksheet found holds any rows of AggRows
\* under its header: ratings in and out of the slider's range, a rating that
\* is not a number, notes that differ by case, two users, two wines.
AggRows ==
    {Row(<<"a">>, wine_options[1], Num(SliderMin), "Rating", <<>>),
     Row(<<"b">>, wine_options[1], Num(SliderMax), "Rating", <<>>),
     Row(<<"b">>, wine_options[3], Num(SliderMax), "Rating", <<>>),
     Row(<<"a">>, wine_options[1], Num(SliderMax + 1), "Rating", <<>>),
     Row(<<"b">>, wine_options[1], Text(<<"n", "/", "a">>), "Rating", <<>>),
     Row(<<"a">>, wine_options[1], Text(<<>>), "Taste", <<"c">>),
     Row(<<"b">>, wine_options[3], Text(<<>>), "Taste", <<"C">>)}

AggInputs ==
    [names |-> {<<"a">>},
     wines |-> {wine_options[1]},
     ratings |-> {SliderDefault},
     notes |-> {<<>>, <<"c">>},
     outcomes |-> {Reply(<<"o", "k">>)},
     users |-> {AllUsers, <<"a">>, <<"b">>},
     selectable |-> {AllWines, wine_options[1], wine_options[3]},
     categories |-> {"Rating", "Taste"},
     max_rows |-> MaxRowsAgg]

InitAgg ==
    InitWith({<<expected_headers>> \o rows : rows \in SeqsUpTo(AggRows, MaxRowsAgg - 1)})
NextAgg == Run(AggInputs)
SpecAgg == InitAgg /\ [][NextAgg]_vars

-----------------------------------------------------------------------------
(* What the claims speak of.                                               *)

Abs(n) == IF n < 0 THEN -n ELSE n

RECURSIVE SumOver(_, _)
SumOver(f, S) ==
    IF S = {} THEN 0
    ELSE LET x == CHOOSE y \in S : TRUE IN f[x] + SumOver(f, S \ {x})

\* The rows the form has appended: the last ones of the worksheet.
FormRows == SubSeq(sheet, Len(sheet) - appended + 1, Len(sheet))

IsNumber(cell) == "num" \in DOMAIN cell
RatingPopulated(r) == r.Rating # Text(<<>>)
TastePopulated(r) == r.Taste # <<>>

IsRatingRecord(r) ==
    /\ r.Category = "Rating"
    /\ IsNumber(r.Rating) /\ r.Rating.num \in SliderMin..SliderMax
    /\ r.Taste = <<>>

IsTasteRecord(r) ==
    /\ r.Category = "Taste"
    /\ r.Taste # <<>> /\ strip(r.Taste) = r.Taste
    /\ r.Rating = Text(<<>>)

\* The records the last run read that the selected wine keeps.
OfWine(r) == sel.wine = AllWines \/ r.Wine = sel.wine
OfUser(r, user) == user = AllUsers \/ r.Name = user
Read == view.ratings_data
CountRead(P(_)) == Cardinality({i \in 1..Len(Read) : P(Read[i])})

\* The numbers among the ratings of the selected wine that user gave.
PresentRatings(user) ==
    LET rows == SelectSeq(Read, LAMBDA r : /\ r.Category = "Rating" /\ OfWine(r)
                                           /\ OfUser(r, user) /\ IsNumber(r.Rating))
    IN [i \in 1..Len(rows) |-> rows[i].Rating.num]

\* x, as a prompt reports it, is the mean of nums: no number when nums is
\* empty, the tenths nearest to the arithmetic mean otherwise.
ReportsMeanOf(x, nums) ==
    IF nums = <<>> THEN x = NaN
    ELSE /\ "tenths" \in DOMAIN x
         /\ 2 * Abs(10 * SumSeq(nums) - x.tenths * Len(nums)) <= Len(nums)

-----------------------------------------------------------------------------
(* The claims.                                                             *)

\* C1: every row a form submission appended is a Rating record (Category
\* "Rating", Rating the slider's value in 1..10, Taste empty) or a Taste
\* record (Category "Taste", Taste a non-empty stripped text, Rating empty);
\* none has both Rating and Taste populated, none has neither.
C1_RecordShape ==
    \A i \in 1..Len(FormRows) :
        LET r == FormRows[i]
        IN /\ IsRatingRecord(r) \/ IsTasteRecord(r)
           /\ ~(RatingPopulated(r) /\ TastePopulated(r))
           /\ RatingPopulated(r) \/ TastePopulated(r)

\* A submission with notes of several lines was appended: a Rating row and
\* two Taste rows.
C1_Witness ==
    /\ Len(FormRows) >= 3
    /\ \E i, j \in 1..Len(FormRows) :
          /\ FormRows[i].Category = "Rating"
          /\ FormRows[j].Category = "Taste" /\ FormRows[j].Taste = <<"d">>

\* C2: a run with Submit pressed on a name that is empty or only whitespace
\* leaves the worksheet as it was, and no row the form appended has an
\* empty Name.
C2_EmptyNameRejected ==
    /\ (view.kind = "submit" /\ strip(view.name) = <<>>) =>
            view.warning /\ ~view.store_changed
    /\ \A i \in 1..Len(FormRows) : FormRows[i].Name # <<>>

\* Submit was pressed on a name of whitespace alone, after rows were appended.
C2_Witness ==
    /\ view.kind = "submit" /\ view.name = <<" ", "\n">> /\ view.warning
    /\ appended > 0

\* C3 as stated: the histogram has the keys 1..10, no negative count, and
\* its counts sum to the number of Rating records of the selected wine
\* whose Rating is a number.
C3_Original ==
    view.rating_counts.some =>
        LET h == view.rating_counts.v
        IN /\ DOMAIN h = SliderMin..SliderMax
           /\ \A r \in SliderMin..SliderMax : h[r] >= 0
           /\ SumOver(h, SliderMin..SliderMax) =
                  CountRead(LAMBDA r : /\ r.Category = "Rating" /\ OfWine(r)
                                       /\ IsNumber(r.Rating))

\* C3 as amended: the histogram has the keys 1..10, each count is the
\* number of Rating records of the selected wine whose Rating is that key,
\* and the counts sum to the number of those whose Rating is a number in
\* 1..10: a number outside 1..10 is in no bin.
C3_Histogram ==
    view.rating_counts.some =>
        LET h == view.rating_counts.v
        IN /\ DOMAIN h = SliderMin..SliderMax
           /\ \A r \in SliderMin..SliderMax :
                 /\ h[r] >= 0
                 /\ h[r] = CountRead(LAMBDA x : /\ x.Category = "Rating" /\ OfWine(x)
                                                /\ x.Rating = Num(r))
           /\ SumOver(h, SliderMin..SliderMax) =
                  CountRead(LAMBDA r : /\ r.Category = "Rating" /\ OfWine(r)
                                       /\ IsNumber(r.Rating)
                                       /\ r.Rating.num \in SliderMin..SliderMax)

\* A histogram of a selected wine with a filled bin, an empty bin and a
\* rating outside the bins.
C3_Witness ==
    /\ view.rating_counts.some
    /\ sel.wine # AllWines
    /\ view.rating_counts.v[SliderMax] = 1
    /\ view.rating_counts.v[SliderMin] = 0
    /\ \E i \in 1..Len(Read) :
          /\ Read[i].Category = "Rating" /\ OfWine(Read[i])
          /\ Read[i].Rating = Num(SliderMax + 1)

\* C4: every call of generate_summary returned text: with the error's
\* message in it when the service raised, the fixed fallback when the
\* response was empty; and the run went on to display it.
C4_NeverPropagates ==
    \A i \in 1..Len(view.gens) :
        LET g == view.gens[i]
        IN /\ "raise" \in DOMAIN g.outcome => Contains(g.result, g.outcome.raise)
           /\ g.outcome = Reply(<<>>) => g.result = NoResponse
           /\ view.reads = 1 /\ view.rating_counts.some
           /\ g.for = "cmp" => view.comparison_summary = Some(g.result)
           /\ g.for = "memo" => view.shown = Some(g.result)
           /\ g.for = "regen" => funny_response = Some(g.result)

\* The service raised while the per-wine summary was generated, and the
\* summary displayed holds the message.
C4_Witness ==
    /\ \E i \in 1..Len(view.gens) :
          /\ view.gens[i].for = "memo"
          /\ "raise" \in DOMAIN view.gens[i].outcome
    /\ view.shown = Some(ErrorPrefix \o <<"4", "2", "9">>)

\* C5 as stated: a run reads the worksheet at most once and calls
\* generate_summary at most once.
C5_Original == view.reads <= 1 /\ Len(view.gens) <= 1

\* C5 as amended: a run reads the worksheet at most once and calls
\* generate_summary at most three times, at most once each for the
\* comparison summary, the memo and Regenerate; with All Users selected and
\* Regenerate not pressed, at most once.
C5_CallsPerRun ==
    /\ view.reads <= 1
    /\ Len(view.gens) <= 3
    /\ \A i, j \in 1..Len(view.gens) : view.gens[i].for = view.gens[j].for => i = j
    /\ (sel.user = AllUsers /\ ~view.regenerate) => Len(view.gens) <= 1

\* A run that called generate_summary three times.
C5_Witness == view.reads = 1 /\ Len(view.gens) = 3

\* C6 as stated: a response generated before a change of selection is not
\* displayed again.
C6_Original == view.shown.some => ~view.shown_stale

\* C6 as amended: the response displayed was generated from the prompt of
\* the run that displays it, which names the selected user and wine.
C6_ShownForPrompt ==
    view.shown.some =>
        /\ view.shown_for = view.prompt_funny
        /\ view.prompt_funny.v.user = sel.user
        /\ view.prompt_funny.v.wine = sel.wine

\* A response is displayed that was generated before the selection last
\* changed: the selection came back to a prompt the memo still held.
C6_Witness == view.shown.some /\ view.shown_stale /\ view.kind = "view"

\* C7: in a run that builds the prompt the memo holds, Regenerate not
\* pressed, generate_summary is not called for the per-wine summary, and
\* funny_response is left as it was and displayed.
C7_MemoHit ==
    (view.memo_hit /\ ~view.regenerate) =>
        /\ \A i \in 1..Len(view.gens) : view.gens[i].for = "cmp"
        /\ view.response_kept
        /\ view.shown = funny_response

\* A run displayed the memoized response of an unchanged prompt.
C7_Witness ==
    /\ view.kind = "view" /\ view.memo_hit /\ ~view.regenerate
    /\ view.shown.some /\ view.gens = <<>>

\* C8 as stated: the means a prompt reports are those of the selected
\* user's ratings and of all ratings of the selected wine: no number when
\* the set holds no number, its arithmetic mean otherwise.
C8_Claim ==
    /\ view.prompt_cmp.some =>
          /\ ReportsMeanOf(view.prompt_cmp.v.user_mean, PresentRatings(sel.user))
          /\ ReportsMeanOf(view.prompt_cmp.v.overall_mean, PresentRatings(AllUsers))
    /\ view.prompt_funny.some =>
          /\ ReportsMeanOf(view.prompt_funny.v.user_mean, PresentRatings(sel.user))
          /\ ReportsMeanOf(view.prompt_funny.v.overall_mean, PresentRatings(AllUsers))

\* C9: the taste table maps each Taste text of the Taste records of the
\* selected wine, compared exactly, to the number of its occurrences; no
\* count is 0 and the counts sum to the number of those records.
C9_TasteFrequency ==
    view.taste_counts.some =>
        LET t == view.taste_counts.v
            IsTaste(r) == r.Category = "Taste" /\ OfWine(r)
        IN /\ DOMAIN t = {Read[i].Taste : i \in {j \in 1..Len(Read) : IsTaste(Read[j])}}
           /\ \A k \in DOMAIN t :
                 /\ t[k] >= 1
                 /\ t[k] = CountRead(LAMBDA r : IsTaste(r) /\ r.Taste = k)
           /\ SumOver(t, DOMAIN t) = CountRead(IsTaste)

\* The table of a selected wine is displayed while another wine has a note
\* that differs from one of the table by case alone.
C9_Witness ==
    /\ view.taste_counts.some
    /\ sel.wine # AllWines
    /\ DOMAIN view.taste_counts.v = {<<"c">>}
    /\ \E i \in 1..Len(Read) :
          /\ Read[i].Category = "Taste" /\ Read[i].Wine # sel.wine
          /\ Read[i].Taste = <<"C">>

\* C10: after a run row 1 is the header; a run that finds another row 1
\* inserts the header above the rows it finds, which stay as they are; a run
\* that finds the header inserts nothing.
C10_HeaderBootstrap ==
    /\ [](view.kind # "none" => sheet # <<>> /\ sheet[1] = expected_headers)
    /\ [][/\ sheet' # <<>> /\ sheet'[1] = expected_headers
          /\ IF sheet = <<>> \/ sheet[1] # expected_headers
             THEN /\ Len(sheet') = Len(sheet) + 1 + (appended' - appended)
                  /\ SubSeq(sheet', 2, Len(sheet) + 1) = sheet
             ELSE /\ Len(sheet') = Len(sheet) + (appended' - appended)
                  /\ SubSeq(sheet', 1, Len(sheet)) = sheet]_vars

\* The first run found a worksheet without header and put the header above
\* the row it found.
C10_Witness ==
    /\ view.kind = "view" /\ view.store_changed
    /\ Len(sheet) = 2 /\ sheet[2] = ForeignRow

====
